---- MODULE Spec2Model ----
(***************************************************************************)
(* A model of add_video_doc.py: the placement of a new documentation page  *)
(* in the menu tree (JSON) and in the localisation catalog (YAML), the     *)
(* derivation of the new page from a template, and the order in which      *)
(* create_new_documentation_page mutates and writes its artifacts.         *)
(***************************************************************************)
EXTENDS Integers, Sequences, FiniteSets, TLC

VARIABLES
    pc,                   \* position of the script / of the harness
    error,                \* the exception that ended the run, or "none"
    menu_file,            \* programmable-media-menu.json on disk
    yaml_file,            \* en.yml on disk
    pages,                \* parent pages on disk: section id -> page state
    index_input,          \* what the operator typed at "Index: "
    tutorial_sections,    \* suggest_placement's flattened list
    selected_tutorial_id, \* the anchor
    parent_path,          \* the anchor's path of ancestor ids
    menu_in,              \* menu_data before the last add_to_menu
    menu_data,            \* the menu tree in memory
    found,                \* add_to_menu's return value
    yaml_in,              \* yaml_data before the last update_yaml_with_new_entry
    yaml_data,            \* the catalog in memory
    template,             \* the template page's text
    content,              \* the new page's text
    mutated,              \* in-memory mutations completed so far
    written,              \* artifacts written so far
    runs                  \* how many placements have been applied

vars == <<pc, error, menu_file, yaml_file, pages, index_input, tutorial_sections,
          selected_tutorial_id, parent_path, menu_in, menu_data, found, yaml_in,
          yaml_data, template, content, mutated, written, runs>>

(***************************************************************************)
(* Bounds of the model.                                                    *)
(***************************************************************************)
MaxNodes == 3
MaxKeys == 3
MaxNodesP == 2
MaxKeysP == 2
MaxSegs == 3
MaxNodesW == 2
MaxKeysW == 1
MaxIndex == 3

(***************************************************************************)
(* The menu tree: a JSON list of nodes. A node is a dict that may carry    *)
(* 'id' and may carry 'children' (a list of nodes).                        *)
(***************************************************************************)
Ids == {"a", "b", "c"}
IdsSmall == {"a", "b"}
NoId == "none"            \* the node has no 'id' key: item.get('id') is None
AbsentId == "z"           \* an identifier no generated node carries
NewId == "new"            \* VIDEO_DETAILS['file_name']

Leaf(i) == [id |-> i, hasKids |-> FALSE, kids |-> <<>>]
Section(i, f) == [id |-> i, hasKids |-> TRUE, kids |-> f]

new_entry == Leaf(NewId)

RECURSIVE NodesOfSize(_, _), ForestsOfSize(_, _)
NodesOfSize(n, labels) ==
    IF n = 0 THEN {}
    ELSE (IF n = 1 THEN {Leaf(i) : i \in labels} ELSE {})
         \cup {Section(i, f) : i \in labels, f \in ForestsOfSize(n - 1, labels)}
ForestsOfSize(n, labels) ==
    IF n = 0 THEN {<<>>}
    ELSE UNION {{<<t>> \o f : t \in NodesOfSize(k, labels),
                              f \in ForestsOfSize(n - k, labels)} : k \in 1..n}

Menus(max, labels) == UNION {ForestsOfSize(n, labels) : n \in 0..max}

(***************************************************************************)
(* suggest_placement.find_tutorials                                        *)
(***************************************************************************)
\* tutorial_sections.append((node['id'], path)), under elif 'id' in node
LeafEntry(node, path) ==
    IF node.id # NoId THEN <<<<node.id, path>>>> ELSE <<>>

RECURSIVE find_tutorials(_, _), find_tutorials_list(_, _)
\* "if 'id' in node" in place of "elif 'id' in node"
find_tutorials_if(node, path) ==
    (IF node.hasKids
     THEN find_tutorials_list(node.kids, path \o <<node.id>>)
     ELSE <<>>) \o LeafEntry(node, path)
find_tutorials(node, path) ==
    IF node.hasKids
    THEN find_tutorials_list(node.kids, path \o <<node.id>>)
    ELSE LeafEntry(node, path)
find_tutorials_list(list, path) ==
    IF list = <<>> THEN <<>>
    ELSE find_tutorials(Head(list), path) \o find_tutorials_list(Tail(list), path)

\* node['id'] in path + [node['id']] raises KeyError when a node with a
\* non-empty 'children' list has no 'id'
RECURSIVE FlattenRaises(_)
FlattenRaises(list) ==
    \E i \in 1..Len(list) :
        /\ list[i].hasKids
        /\ \/ (list[i].id = NoId /\ list[i].kids # <<>>)
           \/ FlattenRaises(list[i].kids)

\* for item in menu_data: find_tutorials(item, [])
Flatten(menu) == find_tutorials_list(menu, <<>>)

(***************************************************************************)
(* create_new_documentation_page.add_to_menu.search_and_insert             *)
(***************************************************************************)
\* menu_list.insert(i + 1, new_entry), i counted from 1 here
ListInsertBefore(menu_list, i, entry) ==
    SubSeq(menu_list, 1, i - 1) \o <<entry>> \o SubSeq(menu_list, i, Len(menu_list))
ListInsert(menu_list, i, entry) ==
    SubSeq(menu_list, 1, i) \o <<entry>> \o SubSeq(menu_list, i + 1, Len(menu_list))

\* the return False after the loop
NotFoundAppends(menu_list) == [found |-> FALSE, list |-> Append(menu_list, new_entry)]
NotFound(menu_list) == [found |-> FALSE, list |-> menu_list]

RECURSIVE search_and_insert(_, _), search_from(_, _, _)
search_from(menu_list, i, anchor) ==
    IF i > Len(menu_list) THEN NotFound(menu_list)
    ELSE IF menu_list[i].id = anchor
         THEN [found |-> TRUE, list |-> ListInsert(menu_list, i, new_entry)]
         ELSE IF menu_list[i].hasKids
              THEN LET r == search_and_insert(menu_list[i].kids, anchor)
                   IN IF r.found
                      THEN [found |-> TRUE,
                            list |-> [menu_list EXCEPT ![i].kids = r.list]]
                      ELSE search_from([menu_list EXCEPT ![i].kids = r.list],
                                       i + 1, anchor)
              ELSE search_from(menu_list, i + 1, anchor)
search_and_insert(menu_list, anchor) == search_from(menu_list, 1, anchor)

add_to_menu(data, anchor) == search_and_insert(data, anchor)

(***************************************************************************)
(* The catalog: en.yml loaded into nested OrderedDicts. Only the presence  *)
(* of the 'en' level, the presence of 'docs' under it and the ordered      *)
(* (key, record) pairs of en.docs matter to update_yaml_with_new_entry.    *)
(***************************************************************************)
Keys == {"a", "b", "c", NewId}
KeysSmall == {"a", "b", NewId}
NewRec == "fresh"         \* new_yaml_entry's record (title, meta_title, ...)

Pair(k, v) == [key |-> k, value |-> v]
KeysOf(docs) == {docs[i].key : i \in 1..Len(docs)}

\* every pre-existing entry carries a record of its own, named after its key
RECURSIVE Docs(_, _)
Docs(max, keys) ==
    IF max = 0 THEN {<<>>}
    ELSE LET shorter == Docs(max - 1, keys)
         IN shorter \cup {Append(d, Pair(k, k)) : d \in shorter, k \in keys}

UniqueKeys(docs) == \A i, j \in 1..Len(docs) : docs[i].key = docs[j].key => i = j

Catalog(docs) == [en |-> TRUE, docs |-> TRUE, entries |-> docs]
NoDocsCatalog == [en |-> TRUE, docs |-> FALSE, entries |-> <<>>]
NoLocaleCatalog == [en |-> FALSE, docs |-> FALSE, entries |-> <<>>]

Catalogs(max, keys) ==
    {Catalog(d) : d \in {x \in Docs(max, keys) : UniqueKeys(x)}}
    \cup {NoDocsCatalog, NoLocaleCatalog}

(***************************************************************************)
(* update_yaml_with_new_entry                                              *)
(***************************************************************************)
\* OrderedDict.__setitem__: new_documentation[key] = value
PutEntryAppend(docs, k, v) == Append(docs, Pair(k, v))
PutEntry(docs, k, v) ==
    IF k \in KeysOf(docs)
    THEN [i \in 1..Len(docs) |-> IF docs[i].key = k THEN Pair(k, v) ELSE docs[i]]
    ELSE Append(docs, Pair(k, v))

\* the loop over yaml_data['en']['docs'].items(), from its i-th pair on
RECURSIVE CopyEntries(_, _, _, _)
\* the test "key == selected_tutorial_id" made before the pair is copied
CopyEntriesNewFirst(old, i, new_documentation, anchor) ==
    IF i > Len(old) THEN new_documentation
    ELSE LET added == IF old[i].key = anchor
                      THEN PutEntry(new_documentation, NewId, NewRec)
                      ELSE new_documentation
         IN CopyEntries(old, i + 1, PutEntry(added, old[i].key, old[i].value), anchor)
CopyEntries(old, i, new_documentation, anchor) ==
    IF i > Len(old) THEN new_documentation
    ELSE LET copied == PutEntry(new_documentation, old[i].key, old[i].value)
         IN CopyEntries(old, i + 1,
                        IF old[i].key = anchor
                        THEN PutEntry(copied, NewId, NewRec)
                        ELSE copied,
                        anchor)

\* if 'en' not in yaml_data or 'docs' not in yaml_data['en']:
\*     yaml_data['en']['docs'] = OrderedDict()
EnsureDocsRaises(yaml) == ~yaml.en
EnsureDocs(yaml) == IF ~yaml.docs THEN Catalog(<<>>) ELSE yaml

update_yaml_with_new_entry(yaml, anchor) ==
    IF EnsureDocsRaises(yaml)
    THEN [raised |-> TRUE, data |-> yaml]
    ELSE [raised |-> FALSE,
          data |-> Catalog(CopyEntries(EnsureDocs(yaml).entries, 1, <<>>, anchor))]

(***************************************************************************)
(* Values of the variables a specification does not use.                   *)
(***************************************************************************)
NoSelection == "unselected"
NoPages == [s \in {} |-> "absent"]

NoWorkflow ==
    /\ error = "none"
    /\ menu_file = <<>>
    /\ yaml_file = NoLocaleCatalog
    /\ pages = NoPages
    /\ index_input = 0
    /\ parent_path = <<>>
    /\ mutated = {}
    /\ written = {}
NoMenu ==
    /\ tutorial_sections = <<>>
    /\ menu_in = <<>>
    /\ menu_data = <<>>
    /\ found = FALSE
NoCatalog ==
    /\ yaml_in = NoLocaleCatalog
    /\ yaml_data = NoLocaleCatalog
NoPage ==
    /\ template = <<>>
    /\ content = <<>>

(***************************************************************************)
(* SpecMenu: find_tutorials and add_to_menu applied to every menu of at    *)
(* most MaxNodes nodes and every anchor.                                   *)
(***************************************************************************)
AnchorIds == Ids \cup {AbsentId}

InitMenu ==
    /\ pc = "loaded"
    /\ menu_data \in Menus(MaxNodes, Ids \cup {NoId})
    /\ menu_in = menu_data
    /\ selected_tutorial_id \in AnchorIds
    /\ tutorial_sections = <<>>
    /\ found = FALSE
    /\ runs = 0
    /\ NoWorkflow /\ NoCatalog /\ NoPage

FindTutorialsCall ==
    /\ pc = "loaded"
    /\ IF FlattenRaises(menu_data)
       THEN /\ pc' = "raised"
            /\ error' = "KeyError"
            /\ UNCHANGED tutorial_sections
       ELSE /\ pc' = "flattened"
            /\ tutorial_sections' = Flatten(menu_data)
            /\ UNCHANGED error
    /\ UNCHANGED <<menu_file, yaml_file, pages, index_input, selected_tutorial_id,
                   parent_path, menu_in, menu_data, found, yaml_in, yaml_data,
                   template, content, mutated, written, runs>>

AddToMenuCall ==
    /\ pc # "inserted"
    /\ LET r == add_to_menu(menu_data, selected_tutorial_id)
       IN /\ menu_in' = menu_data
          /\ menu_data' = r.list
          /\ found' = r.found
    /\ pc' = "inserted"
    /\ runs' = runs + 1
    /\ UNCHANGED <<error, menu_file, yaml_file, pages, index_input, tutorial_sections,
                   selected_tutorial_id, parent_path, yaml_in, yaml_data, template,
                   content, mutated, written>>

NextMenu == FindTutorialsCall \/ AddToMenuCall

SpecMenu == InitMenu /\ [][NextMenu]_vars

(***************************************************************************)
(* Menu trees seen as sets of positions. A position is the sequence of     *)
(* list indices leading from the root list to a node.                      *)
(***************************************************************************)
RECURSIVE Size(_)
Size(list) ==
    IF list = <<>> THEN 0 ELSE 1 + Size(Head(list).kids) + Size(Tail(list))

RECURSIVE PathsFrom(_, _, _)
PathsFrom(list, i, prefix) ==
    IF i > Len(list) THEN <<>>
    ELSE <<Append(prefix, i)>>
         \o PathsFrom(list[i].kids, 1, Append(prefix, i))
         \o PathsFrom(list, i + 1, prefix)
PreorderPaths(menu) == PathsFrom(menu, 1, <<>>)

RECURSIVE NodeAt(_, _)
NodeAt(list, p) ==
    IF Len(p) = 1 THEN list[Head(p)] ELSE NodeAt(list[Head(p)].kids, Tail(p))

HasPath(menu, p) == \E i \in 1..Len(PreorderPaths(menu)) : PreorderPaths(menu)[i] = p

RECURSIVE RemoveAt(_, _)
RemoveAt(list, p) ==
    IF Len(p) = 1
    THEN SubSeq(list, 1, Head(p) - 1) \o SubSeq(list, Head(p) + 1, Len(list))
    ELSE [list EXCEPT ![Head(p)].kids = RemoveAt(list[Head(p)].kids, Tail(p))]

\* the identifiers of p's ancestors, root first
AncestorIds(menu, p) ==
    [k \in 1..(Len(p) - 1) |-> NodeAt(menu, SubSeq(p, 1, k)).id]

NextSibling(p) == [p EXCEPT ![Len(p)] = p[Len(p)] + 1]

PathsWithId(menu, i) ==
    {k \in 1..Len(PreorderPaths(menu)) : NodeAt(menu, PreorderPaths(menu)[k]).id = i}
IdsIn(menu) ==
    {NodeAt(menu, PreorderPaths(menu)[k]).id : k \in 1..Len(PreorderPaths(menu))}
        \ {NoId}
CountId(menu, i) == Cardinality(PathsWithId(menu, i))
UniqueIds(menu) == \A i \in IdsIn(menu) : CountId(menu, i) = 1

Min(S) == CHOOSE x \in S : \A y \in S : x <= y
FirstMatch(menu, i) == PreorderPaths(menu)[Min(PathsWithId(menu, i))]

\* the entries of the flattened list that name identifier i
EntriesOf(sections, i) == {k \in 1..Len(sections) : sections[k][1] = i}
\* i is carried by a node that has no 'children' key
IsLeafId(menu, i) ==
    \E k \in PathsWithId(menu, i) : ~NodeAt(menu, PreorderPaths(menu)[k]).hasKids

(***************************************************************************)
(* C1: when the anchor is carried by a node of a menu with unique          *)
(* identifiers, search_and_insert returns True, the new node stands right  *)
(* after the first preorder match in that node's sibling list, the tree    *)
(* has one node more, and taking the new node out gives back the original  *)
(* tree (every other node keeps its parent and its order among siblings).  *)
(***************************************************************************)
C1_InsertAfterAnchor ==
    (pc = "inserted" /\ UniqueIds(menu_in) /\ selected_tutorial_id \in IdsIn(menu_in))
    => LET p == FirstMatch(menu_in, selected_tutorial_id)
           q == NextSibling(p)
       IN /\ found = TRUE
          /\ HasPath(menu_data, q)
          /\ NodeAt(menu_data, q) = new_entry
          /\ NodeAt(menu_data, p).id = selected_tutorial_id
          /\ RemoveAt(menu_data, q) = menu_in
          /\ Size(menu_data) = Size(menu_in) + 1

\* the anchor is a nested node with a sibling after it
C1_Witness ==
    /\ pc = "inserted"
    /\ UniqueIds(menu_in)
    /\ selected_tutorial_id \in IdsIn(menu_in)
    /\ found = TRUE
    /\ LET p == FirstMatch(menu_in, selected_tutorial_id)
       IN /\ Len(p) = 2
          /\ HasPath(menu_in, NextSibling(p))
          /\ NodeAt(menu_data, NextSibling(p)) = new_entry

(***************************************************************************)
(* C3: when no node at any depth carries the anchor, search_and_insert     *)
(* returns False and the tree is exactly as it was.                        *)
(***************************************************************************)
C3_AbsentAnchorUnchanged ==
    (pc = "inserted" /\ selected_tutorial_id \notin IdsIn(menu_in))
    => (found = FALSE /\ menu_data = menu_in)

\* a nested tree of three nodes searched in vain
C3_Witness ==
    /\ pc = "inserted"
    /\ selected_tutorial_id \notin IdsIn(menu_in)
    /\ Size(menu_in) = 3
    /\ \E k \in 1..Len(PreorderPaths(menu_in)) : Len(PreorderPaths(menu_in)[k]) = 2
    /\ found = FALSE

(***************************************************************************)
(* C7 as stated: in a menu with unique identifiers every identifier of     *)
(* the tree is an entry of the flattened list exactly once.                *)
(***************************************************************************)
C7_EveryIdOnce ==
    (pc = "flattened" /\ UniqueIds(menu_data))
    => \A i \in IdsIn(menu_data) : Cardinality(EntriesOf(tutorial_sections, i)) = 1

(***************************************************************************)
(* C7 amended: in a menu with unique identifiers the flattened list holds  *)
(* exactly once every identifier carried by a node without a 'children'    *)
(* key, paired with the identifiers of its ancestors root first, and never *)
(* holds the identifier of a node that has a 'children' key.               *)
(***************************************************************************)
C7_EveryLeafIdOnce ==
    (pc = "flattened" /\ UniqueIds(menu_data))
    => \A i \in IdsIn(menu_data) :
          IF IsLeafId(menu_data, i)
          THEN /\ Cardinality(EntriesOf(tutorial_sections, i)) = 1
               /\ \A k \in EntriesOf(tutorial_sections, i) :
                     tutorial_sections[k][2]
                         = AncestorIds(menu_data, FirstMatch(menu_data, i))
          ELSE EntriesOf(tutorial_sections, i) = {}

\* a section with an identifier holds a leaf with an identifier
C7_Witness ==
    /\ pc = "flattened"
    /\ UniqueIds(menu_data)
    /\ \E i, j \in IdsIn(menu_data) :
          /\ IsLeafId(menu_data, i)
          /\ ~IsLeafId(menu_data, j)
          /\ \E k \in EntriesOf(tutorial_sections, i) : tutorial_sections[k][2] = <<j>>

(***************************************************************************)
(* SpecCatalog: update_yaml_with_new_entry applied to every catalog of at  *)
(* most MaxKeys entries and every anchor key.                              *)
(***************************************************************************)
AnchorKeys == Keys \cup {AbsentId}

InitCatalog ==
    /\ pc = "loaded"
    /\ yaml_data \in Catalogs(MaxKeys, Keys)
    /\ yaml_in = yaml_data
    /\ selected_tutorial_id \in AnchorKeys
    /\ runs = 0
    /\ NoWorkflow /\ NoMenu /\ NoPage

UpdateYamlCall ==
    /\ pc = "loaded"
    /\ LET r == update_yaml_with_new_entry(yaml_data, selected_tutorial_id)
       IN /\ yaml_in' = yaml_data
          /\ yaml_data' = r.data
          /\ pc' = IF r.raised THEN "raised" ELSE "updated"
          /\ error' = IF r.raised THEN "KeyError" ELSE error
    /\ runs' = runs + 1
    /\ UNCHANGED <<menu_file, yaml_file, pages, index_input, tutorial_sections,
                   selected_tutorial_id, parent_path, menu_in, menu_data, found,
                   template, content, mutated, written>>

NextCatalog == UpdateYamlCall

SpecCatalog == InitCatalog /\ [][NextCatalog]_vars

IndexOfKey(docs, k) == CHOOSE i \in 1..Len(docs) : docs[i].key = k

(***************************************************************************)
(* C2: when the catalog holds the anchor key and not the new key,          *)
(* update_yaml_with_new_entry yields the original pairs in their original  *)
(* order with (new key, new record) right after the anchor's pair, one     *)
(* pair more than before.                                                  *)
(***************************************************************************)
C2_CatalogInsertAfter ==
    (/\ pc = "updated"
     /\ yaml_in.docs
     /\ selected_tutorial_id \in KeysOf(yaml_in.entries)
     /\ NewId \notin KeysOf(yaml_in.entries))
    => LET old == yaml_in.entries
           k == IndexOfKey(old, selected_tutorial_id)
       IN /\ yaml_data.entries
                = SubSeq(old, 1, k) \o <<Pair(NewId, NewRec)>>
                  \o SubSeq(old, k + 1, Len(old))
          /\ Len(yaml_data.entries) = Len(old) + 1
          /\ yaml_data.en /\ yaml_data.docs

\* [x, B, y] with anchor B becomes [x, B, new, y]
C2_Witness ==
    /\ pc = "updated"
    /\ selected_tutorial_id = "b"
    /\ yaml_in.entries = <<Pair("a", "a"), Pair("b", "b"), Pair("c", "c")>>
    /\ yaml_data.entries
           = <<Pair("a", "a"), Pair("b", "b"), Pair(NewId, NewRec), Pair("c", "c")>>

(***************************************************************************)
(* C8: when the document lacks 'en', or lacks 'docs' under 'en',           *)
(* update_yaml_with_new_entry creates the docs section and completes       *)
(* without raising.                                                        *)
(***************************************************************************)
C8_MissingContainerCreated ==
    (pc \in {"updated", "raised"} /\ (~yaml_in.en \/ ~yaml_in.docs))
    => (pc = "updated" /\ error = "none" /\ yaml_data.en /\ yaml_data.docs)

(***************************************************************************)
(* SpecPlacement: the menu insertion and the catalog insertion applied     *)
(* twice with the same anchor and the same new key.                        *)
(***************************************************************************)
InitPlacement ==
    /\ pc = "menu"
    /\ menu_file \in Menus(MaxNodesP, IdsSmall \cup {NoId})
    /\ menu_data = menu_file
    /\ menu_in = menu_file
    /\ yaml_file \in {c \in Catalogs(MaxKeysP, KeysSmall) : c.docs}
    /\ yaml_data = yaml_file
    /\ yaml_in = yaml_file
    /\ selected_tutorial_id \in IdsSmall \cup {AbsentId}
    /\ tutorial_sections = <<>>
    /\ found = FALSE
    /\ runs = 0
    /\ error = "none"
    /\ pages = NoPages
    /\ index_input = 0
    /\ parent_path = <<>>
    /\ mutated = {}
    /\ written = {}
    /\ NoPage

PlaceInMenu ==
    /\ pc = "menu"
    /\ LET r == add_to_menu(menu_data, selected_tutorial_id)
       IN /\ menu_in' = menu_data
          /\ menu_data' = r.list
          /\ found' = r.found
    /\ pc' = "catalog"
    /\ UNCHANGED <<error, menu_file, yaml_file, pages, index_input, tutorial_sections,
                   selected_tutorial_id, parent_path, yaml_in, yaml_data, template,
                   content, mutated, written, runs>>

PlaceInCatalog ==
    /\ pc = "catalog"
    /\ LET r == update_yaml_with_new_entry(yaml_data, selected_tutorial_id)
       IN /\ yaml_in' = yaml_data
          /\ yaml_data' = r.data
    /\ runs' = runs + 1
    /\ pc' = IF runs = 0 THEN "menu" ELSE "done"
    /\ UNCHANGED <<error, menu_file, yaml_file, pages, index_input, tutorial_sections,
                   selected_tutorial_id, parent_path, menu_in, menu_data, found,
                   template, content, mutated, written>>

NextPlacement == PlaceInMenu \/ PlaceInCatalog

SpecPlacement == InitPlacement /\ [][NextPlacement]_vars

\* the anchor is in the menu and in the catalog, the new key in neither
FirstPlacementInserts ==
    /\ selected_tutorial_id \in IdsIn(menu_file)
    /\ selected_tutorial_id \in KeysOf(yaml_file.entries)
    /\ NewId \notin KeysOf(yaml_file.entries)

(***************************************************************************)
(* C10 as stated: after two placements the menu holds two nodes with the   *)
(* new identifier and the catalog differs from the catalog after one       *)
(* placement.                                                              *)
(***************************************************************************)
C10_BothDuplicate ==
    (pc = "done" /\ FirstPlacementInserts)
    => (CountId(menu_data, NewId) = 2 /\ yaml_data # yaml_in)

(***************************************************************************)
(* C10 amended: the second placement inserts the new node again in the     *)
(* menu (two nodes with the new identifier when the anchor is in the       *)
(* menu), and leaves the catalog equal to the catalog after one placement, *)
(* which holds the new key once.                                           *)
(***************************************************************************)
C10_MenuDuplicatesCatalogDoesNot ==
    (pc = "done")
    => /\ yaml_data = yaml_in
       /\ UniqueKeys(yaml_data.entries)
       /\ selected_tutorial_id \in IdsIn(menu_file)
              => (found /\ CountId(menu_data, NewId) = 2)
       /\ selected_tutorial_id \in KeysOf(yaml_file.entries)
              => NewId \in KeysOf(yaml_data.entries)

C10_Witness ==
    /\ pc = "done"
    /\ FirstPlacementInserts
    /\ CountId(menu_data, NewId) = 2
    /\ Len(yaml_data.entries) = Len(yaml_file.entries) + 1

(***************************************************************************)
(* The new page. A text is a sequence of tokens:                           *)
(*   "K" videoId:      "q" a quote (" or ')    "s" a blank    "n" newline  *)
(*   "G" [githublink]: "h" http:// or https:// "H" ##         "W" Overview *)
(*   "x" any other run of non-blank characters                             *)
(* and, in the output, "v" the video id, "u" the rest of the github url    *)
(* and "S" the short summary.                                              *)
(***************************************************************************)
IsBlank(t) == t \in {"s", "n"}

\* \s* : the first position from i on that holds no blank
RECURSIVE SkipBlanks(_, _)
SkipBlanks(c, i) ==
    IF i <= Len(c) /\ IsBlank(c[i]) THEN SkipBlanks(c, i + 1) ELSE i

\* .*?["\'] : the next quote from k on, on the same line; 0 when there is none
RECURSIVE ClosingQuote(_, _)
ClosingQuote(c, k) ==
    IF k > Len(c) \/ c[k] = "n" THEN 0
    ELSE IF c[k] = "q" THEN k ELSE ClosingQuote(c, k + 1)

\* r'videoId:\s*["\'].*?["\']' matched at i: the position after the match, or 0
VideoIdMatch(c, i) ==
    IF c[i] # "K" THEN 0
    ELSE LET j == SkipBlanks(c, i + 1)
         IN IF j > Len(c) \/ c[j] # "q" THEN 0
            ELSE LET k == ClosingQuote(c, j + 1)
                 IN IF k = 0 THEN 0 ELSE k + 1

\* f'videoId: "{video_id}"'
VideoIdText == <<"K", "s", "q", "v", "q">>

\* re.sub(r'videoId:\s*["\'].*?["\']', f'videoId: "{video_id}"', content)
RECURSIVE SubVideoIdFrom(_, _)
SubVideoIdFrom(c, i) ==
    IF i > Len(c) THEN <<>>
    ELSE LET e == VideoIdMatch(c, i)
         IN IF e = 0
            THEN <<c[i]>> \o SubVideoIdFrom(c, i + 1)
            ELSE VideoIdText \o SubVideoIdFrom(c, e)
SubVideoId(c) == SubVideoIdFrom(c, 1)

\* [^\s]+ : the first position from i on that holds a blank
RECURSIVE SkipNonBlanks(_, _)
SkipNonBlanks(c, i) ==
    IF i <= Len(c) /\ ~IsBlank(c[i]) THEN SkipNonBlanks(c, i + 1) ELSE i

\* r'\[githublink\]:\s*https?://[^\s]+' matched at i
GithubLinkMatch(c, i) ==
    IF c[i] # "G" THEN 0
    ELSE LET j == SkipBlanks(c, i + 1)
         IN IF j > Len(c) \/ c[j] # "h" THEN 0
            ELSE LET k == SkipNonBlanks(c, j + 1)
                 IN IF k = j + 1 THEN 0 ELSE k

\* f'[githublink]: {VIDEO_DETAILS["github_url"]}'
GithubLinkText == <<"G", "s", "h", "u">>

RECURSIVE SubGithubLinkFrom(_, _)
SubGithubLinkFrom(c, i) ==
    IF i > Len(c) THEN <<>>
    ELSE LET e == GithubLinkMatch(c, i)
         IN IF e = 0
            THEN <<c[i]>> \o SubGithubLinkFrom(c, i + 1)
            ELSE GithubLinkText \o SubGithubLinkFrom(c, e)
SubGithubLink(c) == SubGithubLinkFrom(c, 1)

\* \s*\n, greedy: the last newline of the run of blanks i..(j - 1); 0 when none
RECURSIVE LastNewline(_, _, _)
LastNewline(c, i, j) ==
    IF j <= i THEN 0
    ELSE IF c[j - 1] = "n" THEN j - 1 ELSE LastNewline(c, i, j - 1)

\* (?=\n## |\Z) at position k
SectionEnds(c, k) ==
    \/ k = Len(c) + 1
    \/ /\ k + 2 <= Len(c)
       /\ c[k] = "n" /\ c[k + 1] = "H" /\ c[k + 2] = "s"

\* .*? with DOTALL: the first position from k on where the section ends
RECURSIVE SectionEnd(_, _)
SectionEnd(c, k) == IF SectionEnds(c, k) THEN k ELSE SectionEnd(c, k + 1)

\* r'(## Overview\s*\n)' matched at i: the position after group 1, or 0
OverviewHeaderMatch(c, i) ==
    IF ~(i + 2 <= Len(c) /\ c[i] = "H" /\ c[i + 1] = "s" /\ c[i + 2] = "W") THEN 0
    ELSE LET nl == LastNewline(c, i + 3, SkipBlanks(c, i + 3))
         IN IF nl = 0 THEN 0 ELSE nl + 1

\* r'\1\n' + VIDEO_DETAILS['short_summary'] + '\n'
OverviewText(header) == header \o <<"n", "S", "n">>

RECURSIVE SubOverviewFrom(_, _)
SubOverviewFrom(c, i) ==
    IF i > Len(c) THEN <<>>
    ELSE LET g == OverviewHeaderMatch(c, i)
         IN IF g = 0
            THEN <<c[i]>> \o SubOverviewFrom(c, i + 1)
            ELSE OverviewText(SubSeq(c, i, g - 1))
                 \o SubOverviewFrom(c, SectionEnd(c, g))
SubOverview(c) == SubOverviewFrom(c, 1)

(***************************************************************************)
(* SpecDerive: the three substitutions applied to every template made of   *)
(* at most MaxSegs pieces.                                                 *)
(***************************************************************************)
Pieces ==
    { <<"K", "s", "q", "x", "q">>,        \* videoId: "x"
      <<"K", "q", "q">>,                  \* videoId:''
      <<"K", "s", "q", "x", "n">>,        \* videoId: "x  with no closing quote
      <<"x">>, <<"n">>,
      <<"G", "s", "h", "x">>,             \* [githublink]: https://x
      <<"H", "s", "W", "n", "x">>,        \* ## Overview, then its body
      <<"n", "H", "s", "x">> }            \* the next header

RECURSIVE Templates(_)
Templates(max) ==
    IF max = 0 THEN {<<>>}
    ELSE LET shorter == Templates(max - 1)
         IN shorter \cup {t \o p : t \in shorter, p \in Pieces}

InitDerive ==
    /\ pc = "read"
    /\ template \in Templates(MaxSegs)
    /\ content = template
    /\ selected_tutorial_id = NoSelection
    /\ runs = 0
    /\ NoWorkflow /\ NoMenu /\ NoCatalog

DeriveFrame ==
    UNCHANGED <<error, menu_file, yaml_file, pages, index_input, tutorial_sections,
                selected_tutorial_id, parent_path, menu_in, menu_data, found, yaml_in,
                yaml_data, template, mutated, written, runs>>

SubstituteVideoId ==
    /\ pc = "read"
    /\ content' = SubVideoId(content)
    /\ pc' = "video"
    /\ DeriveFrame

SubstituteGithubLink ==
    /\ pc = "video"
    /\ content' = SubGithubLink(content)
    /\ pc' = "link"
    /\ DeriveFrame

SubstituteOverview ==
    /\ pc = "link"
    /\ content' = SubOverview(content)
    /\ pc' = "derived"
    /\ DeriveFrame

NextDerive == SubstituteVideoId \/ SubstituteGithubLink \/ SubstituteOverview

SpecDerive == InitDerive /\ [][NextDerive]_vars

\* the first video-id marker of c: where it starts and where it ends
RECURSIVE FirstVideoIdFrom(_, _)
FirstVideoIdFrom(c, i) ==
    IF i > Len(c) THEN <<0, 0>>
    ELSE IF VideoIdMatch(c, i) # 0 THEN <<i, VideoIdMatch(c, i)>>
         ELSE FirstVideoIdFrom(c, i + 1)

OnlyFirstVideoIdReplaced(c) ==
    LET m == FirstVideoIdFrom(c, 1)
    IN IF m[1] = 0 THEN c
       ELSE SubSeq(c, 1, m[1] - 1) \o VideoIdText \o SubSeq(c, m[2], Len(c))

(***************************************************************************)
(* C9: the video-id substitution replaces only the first video-id marker   *)
(* of the template; everything else, a later video-id marker included, is  *)
(* as in the template.                                                     *)
(***************************************************************************)
C9_OnlyFirstVideoId ==
    (pc = "video") => content = OnlyFirstVideoIdReplaced(template)

(***************************************************************************)
(* SpecWorkflow: create_new_documentation_page, statement by statement.    *)
(* An exception ends the run where it is raised: pc stays and error names  *)
(* it.                                                                     *)
(***************************************************************************)
PageStates == {"absent", "marked", "unmarked"}
TemplatePage == <<"K", "s", "q", "x", "q", "n", "G", "s", "h", "x", "n",
                  "H", "s", "W", "n", "x">>

InitWorkflow ==
    /\ pc = "start"
    /\ error = "none"
    /\ menu_file \in Menus(MaxNodesW, IdsSmall \cup {NoId})
    /\ yaml_file \in Catalogs(MaxKeysW, KeysSmall)
    /\ pages \in [IdsSmall -> PageStates]
    /\ template = TemplatePage
    /\ index_input = 0
    /\ selected_tutorial_id = NoSelection
    /\ parent_path = <<>>
    /\ mutated = {}
    /\ written = {}
    /\ runs = 0
    /\ content = <<>>
    /\ NoMenu /\ NoCatalog

Running == error = "none"

\* requests.get(...), the status check and the video URL of the description
FetchTicket ==
    /\ pc = "start" /\ Running
    /\ \E outcome \in {"ok", "bad_status", "no_video_url"} :
          IF outcome = "ok"
          THEN pc' = "git" /\ UNCHANGED error
          ELSE error' = "ValueError" /\ UNCHANGED pc
    /\ UNCHANGED <<menu_file, yaml_file, pages, index_input, tutorial_sections,
                   selected_tutorial_id, parent_path, menu_in, menu_data, found,
                   yaml_in, yaml_data, template, content, mutated, written, runs>>

\* repo.git.checkout('master'), pull, checkout('-b', branch_name)
GitCheckout ==
    /\ pc = "git" /\ Running
    /\ pc' = "suggest"
    /\ UNCHANGED <<error, menu_file, yaml_file, pages, index_input, tutorial_sections,
                   selected_tutorial_id, parent_path, menu_in, menu_data, found,
                   yaml_in, yaml_data, template, content, mutated, written, runs>>

\* tutorial_sections[selected_index]: the 1-based position read, 0 for IndexError
PyIndex(sections, selected_index) ==
    IF 0 <= selected_index /\ selected_index < Len(sections)
    THEN selected_index + 1
    ELSE IF selected_index < 0 /\ -selected_index <= Len(sections)
         THEN Len(sections) + selected_index + 1
         ELSE 0

IndexInputs == (0 - MaxIndex)..MaxIndex

SuggestPlacement ==
    /\ pc = "suggest" /\ Running
    /\ IF FlattenRaises(menu_file)
       THEN /\ error' = "KeyError"
            /\ UNCHANGED <<pc, index_input, tutorial_sections, selected_tutorial_id,
                           parent_path>>
       ELSE /\ tutorial_sections' = Flatten(menu_file)
            /\ \E typed \in IndexInputs :
                  /\ index_input' = typed
                  /\ LET at == PyIndex(tutorial_sections', typed - 1)
                     IN IF at = 0
                        THEN /\ error' = "IndexError"
                             /\ UNCHANGED <<pc, selected_tutorial_id, parent_path>>
                        ELSE /\ selected_tutorial_id' = tutorial_sections'[at][1]
                             /\ parent_path' = tutorial_sections'[at][2]
                             /\ pc' = "add_to_menu"
                             /\ UNCHANGED error
    /\ UNCHANGED <<menu_file, yaml_file, pages, menu_in, menu_data, found, yaml_in,
                   yaml_data, template, content, mutated, written, runs>>

\* json.load(file), then add_to_menu(menu_data)
AddToMenu ==
    /\ pc = "add_to_menu" /\ Running
    /\ LET r == add_to_menu(menu_file, selected_tutorial_id)
       IN /\ menu_in' = menu_file
          /\ menu_data' = r.list
          /\ found' = r.found
    /\ mutated' = mutated \cup {"menu"}
    /\ pc' = "write_menu"
    /\ UNCHANGED <<error, menu_file, yaml_file, pages, index_input, tutorial_sections,
                   selected_tutorial_id, parent_path, yaml_in, yaml_data, template,
                   content, written, runs>>

\* json.dump(menu_data, file, indent=2)
WriteMenu ==
    /\ pc = "write_menu" /\ Running
    /\ menu_file' = menu_data
    /\ written' = written \cup {"menu"}
    /\ pc' = "update_yaml"
    /\ UNCHANGED <<error, yaml_file, pages, index_input, tutorial_sections,
                   selected_tutorial_id, parent_path, menu_in, menu_data, found,
                   yaml_in, yaml_data, template, content, mutated, runs>>

\* yaml.full_load(file), then update_yaml_with_new_entry(...)
UpdateYaml ==
    /\ pc = "update_yaml" /\ Running
    /\ LET r == update_yaml_with_new_entry(yaml_file, selected_tutorial_id)
       IN /\ yaml_in' = yaml_file
          /\ yaml_data' = r.data
          /\ IF r.raised
             THEN error' = "KeyError" /\ UNCHANGED <<pc, mutated>>
             ELSE /\ pc' = "write_yaml"
                  /\ mutated' = mutated \cup {"catalog"}
                  /\ UNCHANGED error
    /\ UNCHANGED <<menu_file, yaml_file, pages, index_input, tutorial_sections,
                   selected_tutorial_id, parent_path, menu_in, menu_data, found,
                   template, content, written, runs>>

\* yaml.dump(yaml_data, file, ...)
WriteYaml ==
    /\ pc = "write_yaml" /\ Running
    /\ yaml_file' = yaml_data
    /\ written' = written \cup {"catalog"}
    /\ pc' = "derive"
    /\ UNCHANGED <<error, menu_file, pages, index_input, tutorial_sections,
                   selected_tutorial_id, parent_path, menu_in, menu_data, found,
                   yaml_in, yaml_data, template, content, mutated, runs>>

\* the three re.sub calls on the template's text
DerivePage ==
    /\ pc = "derive" /\ Running
    /\ content' = SubOverview(SubGithubLink(SubVideoId(template)))
    /\ mutated' = mutated \cup {"page"}
    /\ pc' = "write_page"
    /\ UNCHANGED <<error, menu_file, yaml_file, pages, index_input, tutorial_sections,
                   selected_tutorial_id, parent_path, menu_in, menu_data, found,
                   yaml_in, yaml_data, template, written, runs>>

\* with open(dest_md, 'w') as file: file.write(content)
WriteNewPage ==
    /\ pc = "write_page" /\ Running
    /\ written' = written \cup {"page"}
    /\ pc' = "parents"
    /\ UNCHANGED <<error, menu_file, yaml_file, pages, index_input, tutorial_sections,
                   selected_tutorial_id, parent_path, menu_in, menu_data, found,
                   yaml_in, yaml_data, template, content, mutated, runs>>

\* parent_path[-2:]
LastTwo(path) == SubSeq(path, IF Len(path) > 2 THEN Len(path) - 1 ELSE 1, Len(path))

\* the loop of add_partial_doc_to_parent_pages: a page that does not exist is
\* skipped, a page with a {partialdoc} line is patched and written, a page
\* without one raises ValueError (rindex) and ends the loop
RECURSIVE PatchParents(_, _, _)
PatchParents(sections, i, pgs) ==
    IF i > Len(sections) THEN [pages |-> pgs, raised |-> FALSE]
    ELSE IF pgs[sections[i]] = "absent" THEN PatchParents(sections, i + 1, pgs)
    ELSE IF pgs[sections[i]] = "unmarked" THEN [pages |-> pgs, raised |-> TRUE]
    ELSE PatchParents(sections, i + 1, [pgs EXCEPT ![sections[i]] = "patched"])

AddPartialDocToParentPages ==
    /\ pc = "parents" /\ Running
    /\ LET r == PatchParents(LastTwo(parent_path), 1, pages)
       IN /\ pages' = r.pages
          /\ written' = IF r.pages # pages THEN written \cup {"parents"} ELSE written
          /\ IF r.raised
             THEN error' = "ValueError" /\ UNCHANGED <<pc, mutated>>
             ELSE /\ pc' = "partial_card"
                  /\ mutated' = mutated \cup {"parents"}
                  /\ UNCHANGED error
    /\ UNCHANGED <<menu_file, yaml_file, index_input, tutorial_sections,
                   selected_tutorial_id, parent_path, menu_in, menu_data, found,
                   yaml_in, yaml_data, template, content, runs>>

\* create_partial_card(docs_dir)
CreatePartialCard ==
    /\ pc = "partial_card" /\ Running
    /\ written' = written \cup {"partial_card"}
    /\ pc' = "done"
    /\ UNCHANGED <<error, menu_file, yaml_file, pages, index_input, tutorial_sections,
                   selected_tutorial_id, parent_path, menu_in, menu_data, found,
                   yaml_in, yaml_data, template, content, mutated, runs>>

NextWorkflow ==
    \/ FetchTicket \/ GitCheckout \/ SuggestPlacement
    \/ AddToMenu \/ WriteMenu
    \/ UpdateYaml \/ WriteYaml
    \/ DerivePage \/ WriteNewPage
    \/ AddPartialDocToParentPages \/ CreatePartialCard

SpecWorkflow == InitWorkflow /\ [][NextWorkflow]_vars

\* the menu and the catalog as this run loaded them
MenuAsLoaded == IF "menu" \in mutated THEN menu_in ELSE menu_file
CatalogAsLoaded == IF "catalog" \in written THEN yaml_in ELSE yaml_file
AnchorAbsent ==
    /\ selected_tutorial_id # NoSelection
    /\ \/ selected_tutorial_id \notin IdsIn(MenuAsLoaded)
       \/ selected_tutorial_id \notin KeysOf(CatalogAsLoaded.entries)

\* the operator typed one of the listed numbers
IndexInRange == index_input \in 1..Len(tutorial_sections)

(***************************************************************************)
(* C4: a run whose anchor is absent from the menu tree or from the         *)
(* catalog's docs section ends in the AnchorNotFound failure and writes    *)
(* no artifact. Stated for the runs whose index is one of the listed       *)
(* numbers and whose catalog has its docs section, where nothing but the   *)
(* absent anchor is wrong.                                                 *)
(***************************************************************************)
C4_AbsentAnchorWritesNothing ==
    (AnchorAbsent /\ IndexInRange /\ CatalogAsLoaded.docs)
    => /\ written = {}
       /\ pc # "done"
       /\ error \in {"none", "AnchorNotFound"}

(***************************************************************************)
(* C5: no artifact is written before all the in-memory mutations (menu,    *)
(* catalog, new page, parent pages) have completed. Stated for the runs    *)
(* whose index is one of the listed numbers.                               *)
(***************************************************************************)
Mutations == {"menu", "catalog", "page", "parents"}

C5_MutationsBeforeWrites ==
    (IndexInRange /\ written # {}) => (mutated = Mutations)

(***************************************************************************)
(* C6: with N entries listed, an index outside 1..N is rejected: no anchor *)
(* is selected and nothing is mutated or written afterwards.               *)
(***************************************************************************)
Asked ==
    \/ pc \notin {"start", "git", "suggest"}
    \/ (pc = "suggest" /\ error = "IndexError")

C6_OutOfRangeRejected ==
    (Asked /\ index_input \notin 1..Len(tutorial_sections))
    => /\ error = "IndexError"
       /\ selected_tutorial_id = NoSelection
       /\ mutated = {}
       /\ written = {}

====
